---------------------------- MODULE Spec2Model ----------------------------
(***************************************************************************)
(* Model of the protoc-gen-doc documentation generator (src/src/main.cpp). *)
(*                                                                         *)
(* Strings are sequences of one-character strings, so that the string      *)
(* operations of the code (startsWith, mid, trimmed, indexOf, split, <)    *)
(* are computed character by character.  Markup literals that the code     *)
(* only ever concatenates ("<p>", "<a href=...>") are kept as one element. *)
(***************************************************************************)
EXTENDS Integers, Sequences, FiniteSets, TLC

VARIABLES
    parameter,       \* host: the plugin parameter string of this run
    parsedFiles,     \* host: the file descriptors of this run, in order
    jsonFails,       \* environment: QJsonDocument::fromVariant yields a null document
    idx,             \* host: number of Generate callbacks started so far
    phase,           \* host: "running", "done", "failed" or "hung"
    error,           \* the error string of the last callback ("" when none)
    template_,       \* generatorContext.template_
    outputFileName,  \* generatorContext.outputFileName
    noExclude,       \* generatorContext.noExclude
    files,           \* generatorContext.files
    sink,            \* host: what was opened and written through context->Open
    rendered,        \* paragraph filter: the text renderer->render returned
    pout,            \* paragraph filter: the value pFilter returned
    scan             \* header scan: the stream position, the line held, the
                     \* description so far and the loop the scan is in

vars == <<parameter, parsedFiles, jsonFails, idx, phase, error, template_,
          outputFileName, noExclude, files, sink, rendered, pout, scan>>

(***************************************************************************)
(* Bounds of the model.                                                    *)
(***************************************************************************)
MaxFiles == 3
MaxFields == 3
MaxLines == 3
MaxText == 5
MaxNullReads == 2

(***************************************************************************)
(* QString operations.                                                     *)
(***************************************************************************)
LF == "\n"
CR == "\r"
TAB == "\t"

Ascii ==
    <<" ", "!", "\"", "#", "$", "%", "&", "'", "(", ")", "*", "+", ",", "-", ".", "/",
      "0", "1", "2", "3", "4", "5", "6", "7", "8", "9", ":", ";", "<", "=", ">", "?",
      "@", "A", "B", "C", "D", "E", "F", "G", "H", "I", "J", "K", "L", "M", "N", "O",
      "P", "Q", "R", "S", "T", "U", "V", "W", "X", "Y", "Z", "[", "\\", "]", "^", "_">>

AsciiLower ==
    <<"a", "b", "c", "d", "e", "f", "g", "h", "i", "j", "k", "l", "m", "n", "o",
      "p", "q", "r", "s", "t", "u", "v", "w", "x", "y", "z", "{", "|", "}", "~">>

\* The code unit of a character: QString's operator< compares code units.
CodeOf ==
    [c \in {Ascii[i] : i \in 1..Len(Ascii)}
            \cup {AsciiLower[i] : i \in 1..Len(AsciiLower)} \cup {LF, CR, TAB} |->
        IF c = TAB THEN 9
        ELSE IF c = LF THEN 10
        ELSE IF c = CR THEN 13
        ELSE IF \E i \in 1..Len(Ascii) : Ascii[i] = c
             THEN 31 + (CHOOSE i \in 1..Len(Ascii) : Ascii[i] = c)
        ELSE 96 + (CHOOSE i \in 1..Len(AsciiLower) : AsciiLower[i] = c)]

\* QChar::isSpace
IsSpace(c) == c \in {" ", LF, CR, TAB}

\* QString::startsWith
StartsWith(s, p) == Len(s) >= Len(p) /\ SubSeq(s, 1, Len(p)) = p

\* QString::mid(pos): the string from 0-based position pos on
Mid(s, pos) == IF pos >= Len(s) THEN <<>> ELSE SubSeq(s, pos + 1, Len(s))

\* QString::mid(pos, n)
MidN(s, pos, n) ==
    IF pos >= Len(s) \/ n <= 0 THEN <<>>
    ELSE SubSeq(s, pos + 1, IF pos + n > Len(s) THEN Len(s) ELSE pos + n)

\* QString::left(n): the whole string when n is negative or n >= size
Left(s, n) == IF n < 0 \/ n >= Len(s) THEN s ELSE SubSeq(s, 1, n)

\* QString::trimmed
Trimmed(s) ==
    LET keep == {i \in 1..Len(s) : ~IsSpace(s[i])}
    IN  IF keep = {} THEN <<>>
        ELSE SubSeq(s, CHOOSE i \in keep : \A j \in keep : i <= j,
                       CHOOSE i \in keep : \A j \in keep : i >= j)

\* QString::indexOf(p): 0-based position of the first occurrence, or -1
IndexOf(s, p) ==
    LET hits == {i \in 1..(Len(s) - Len(p) + 1) : SubSeq(s, i, i + Len(p) - 1) = p}
    IN  IF hits = {} THEN -1
        ELSE (CHOOSE i \in hits : \A j \in hits : i <= j) - 1

\* QString operator<: comparison of the code units, a proper prefix first
RECURSIVE StrLess(_, _)
StrLess(a, b) ==
    IF b = <<>> THEN FALSE
    ELSE IF a = <<>> THEN TRUE
    ELSE IF CodeOf[Head(a)] # CodeOf[Head(b)] THEN CodeOf[Head(a)] < CodeOf[Head(b)]
    ELSE StrLess(Tail(a), Tail(b))

\* s.replace(QRegularExpression("^ ", MultilineOption), ""): one space is removed
\* at the start of the text and after every line feed (the matches are found in
\* the original text, so a second space of the same line stays)
RECURSIVE StripLineSpaces(_, _)
StripLineSpaces(s, atLineStart) ==
    IF s = <<>> THEN <<>>
    ELSE IF atLineStart /\ Head(s) = " " THEN StripLineSpaces(Tail(s), FALSE)
    ELSE <<Head(s)>> \o StripLineSpaces(Tail(s), Head(s) = LF)

\* QString::split(","): the pieces between the separators, empty pieces kept
RECURSIVE SplitAt(_, _, _)
SplitAt(s, sep, piece) ==
    IF s = <<>> THEN <<piece>>
    ELSE IF Head(s) = sep THEN <<piece>> \o SplitAt(Tail(s), sep, <<>>)
    ELSE SplitAt(Tail(s), sep, Append(piece, Head(s)))

\* The value of F at e, with e evaluated once
With(e, F(_)) == CHOOSE r \in {F(x) : x \in {e}} : TRUE

\* QVariantHash operator[] followed by toString: "" for a key that is absent
HashString(h, key) == IF key \in DOMAIN h THEN h[key] ELSE <<>>

AtExclude == <<"@", "e", "x", "c", "l", "u", "d", "e">>

(***************************************************************************)
(* Comments of schema items.                                               *)
(***************************************************************************)
\* One raw comment as the source location gives it: documentation only when
\* its first character is '*' or '/'
DocPart(raw) ==
    IF StartsWith(raw, <<"*">>) \/ StartsWith(raw, <<"/">>)
    THEN StripLineSpaces(Mid(raw, 1), TRUE)
    ELSE <<>>

\* The leading part followed by the trailing part, trimmed
NormalizedComment(d) == Trimmed(DocPart(d.leading) \o DocPart(d.trailing))

\* excluded = !generatorContext.noExclude when the text starts with @exclude
Excluded(text, ignoreDirectives) == StartsWith(text, AtExclude) /\ ~ignoreDirectives

\* The check for the directive shared by both descriptionOf overloads
StripDirective(text) == IF StartsWith(text, AtExclude) THEN Mid(text, 8) ELSE text

\* descriptionOf(const T *, bool &): [description, excluded]
DescriptionOf(d, ignoreDirectives) ==
    LET text == NormalizedComment(d)
    IN  [description |-> StripDirective(text),
         excluded    |-> Excluded(text, ignoreDirectives)]

(***************************************************************************)
(* The file-level comment, scanned from the source text of the file.       *)
(* The text is the sequence of its lines; the scan is a loop over          *)
(* QTextStream::readLine, modelled one iteration at a time.                *)
(***************************************************************************)
LineDoc == <<"/", "/", "/">>
BlockOpen == <<"/", "*", "*">>
BlockEmpty == <<"/", "*", "*", "*", "/">>
BlockClose == <<"*", "/">>

\* QTextStream::atEnd
AtEnd(lines, s) == s.pos >= Len(lines)

\* stream.readLine().trimmed(): a null string once the stream is at its end
ReadLine(lines, s) == IF AtEnd(lines, s) THEN <<>> ELSE Trimmed(lines[s.pos + 1])

Advance(lines, s) == IF AtEnd(lines, s) THEN s.pos ELSE s.pos + 1

ScanInit == [pos |-> 0, line |-> <<>>, description |-> <<>>, pc |-> "outer"]

\* The scan before its first iteration, with the count of the readLine calls
\* made at the end of the stream
ScanStart == [pos |-> 0, line |-> <<>>, description |-> <<>>, pc |-> "outer", nulls |-> 0]

\* One iteration of the outer loop: the first non-blank line decides
ScanOuter(lines, s) ==
    IF AtEnd(lines, s) THEN [s EXCEPT !.pc = "finish"]
    ELSE LET line == ReadLine(lines, s)
             t == [s EXCEPT !.pos = Advance(lines, s), !.line = line]
         IN  IF line = <<>> THEN t
             ELSE IF StartsWith(line, LineDoc) THEN [t EXCEPT !.pc = "lines"]
             ELSE IF StartsWith(line, BlockOpen) /\ ~StartsWith(line, BlockEmpty)
                  THEN [t EXCEPT !.line = Mid(line, 2), !.pc = "block"]
             ELSE [t EXCEPT !.pc = "finish"]

\* One iteration of the loop over the /// lines, or its exit
ScanLines(lines, s) ==
    IF ~AtEnd(lines, s) /\ StartsWith(s.line, LineDoc)
    THEN [s EXCEPT
            !.description = s.description
                \o Mid(s.line, IF StartsWith(s.line, LineDoc \o <<" ">>) THEN 4 ELSE 3)
                \o <<LF>>,
            !.line = ReadLine(lines, s),
            !.pos = Advance(lines, s)]
    ELSE [s EXCEPT !.description = Left(s.description, Len(s.description) - 1),
                   !.pc = "finish"]

\* One iteration of the loop over the lines of a /** block, or its exit
ScanBlock(lines, s) ==
    LET end == IndexOf(s.line, BlockClose)
        star == IF StartsWith(s.line, <<"*">>) THEN 1 ELSE 0
        starNotClose ==
            IF StartsWith(s.line, <<"*">>) /\ ~StartsWith(s.line, BlockClose) THEN 1 ELSE 0
        space == IF StartsWith(s.line, <<"*", " ">>) THEN 1 ELSE 0
    IN  IF end = -1
        THEN [s EXCEPT !.description = s.description \o Mid(s.line, star + space) \o <<LF>>,
                       !.line = ReadLine(lines, s),
                       !.pos = Advance(lines, s)]
        ELSE [s EXCEPT
                !.description = s.description
                    \o MidN(s.line, starNotClose + space, end - (starNotClose + space)),
                !.pc = "finish"]

\* The description is trimmed once the loop is left
ScanFinish(s) == [s EXCEPT !.description = Trimmed(s.description), !.pc = "done"]

ScanStep(lines, s) ==
    CASE s.pc = "outer" -> ScanOuter(lines, s)
      [] s.pc = "lines" -> ScanLines(lines, s)
      [] s.pc = "block" -> ScanBlock(lines, s)
      [] s.pc = "finish" -> ScanFinish(s)
      [] OTHER -> s

\* The block loop never ends once the stream is at its end and the line holds
\* no closing marker: every further readLine gives the null string
ScanHangs(lines, s) ==
    s.pc = "block" /\ AtEnd(lines, s) /\ IndexOf(s.line, BlockClose) = -1

RECURSIVE ScanRun(_, _)
ScanRun(lines, s) ==
    IF s.pc = "done" THEN s
    ELSE IF ScanHangs(lines, s) THEN [s EXCEPT !.pc = "hang"]
    ELSE With(ScanStep(lines, s), LAMBDA t : ScanRun(lines, t))

\* descriptionOf(const gp::FileDescriptor *, std::string *, bool &):
\* [description, excluded, error, hang]; excluded is left as the caller set it
\* when the file cannot be opened
FileDescriptionOf(fd, ignoreDirectives) ==
    IF ~fd.openable
    THEN [description |-> <<>>, excluded |-> FALSE, error |-> "cannot open file",
          hang |-> FALSE]
    ELSE With(ScanRun(fd.text, ScanInit),
              LAMBDA s : [description |-> StripDirective(s.description),
                          excluded    |-> Excluded(s.description, ignoreDirectives),
                          error       |-> "",
                          hang        |-> s.pc = "hang"])

(***************************************************************************)
(* Display types of fields.                                                *)
(***************************************************************************)
TypesLinkOpen == "<a href=\"/docs/types.php\">"
LinkClose == "</a>"

TypesLink(category) == <<TypesLinkOpen>> \o category \o <<LinkClose>>

ScalarTypes ==
    {"TYPE_BOOL", "TYPE_BYTES", "TYPE_STRING", "TYPE_DOUBLE", "TYPE_FLOAT",
     "TYPE_FIXED32", "TYPE_FIXED64", "TYPE_INT32", "TYPE_INT64", "TYPE_SFIXED32",
     "TYPE_SFIXED64", "TYPE_SINT32", "TYPE_SINT64", "TYPE_UINT32", "TYPE_UINT64"}

FieldTypes == ScalarTypes \cup {"TYPE_MESSAGE", "TYPE_GROUP", "TYPE_ENUM", "TYPE_OTHER"}

Labels == {"LABEL_OPTIONAL", "LABEL_REQUIRED", "LABEL_REPEATED"}

scalarTypeName(type) ==
    CASE type = "TYPE_BOOL" -> TypesLink(<<"b", "o", "o", "l">>)
      [] type \in {"TYPE_BYTES", "TYPE_STRING"} ->
            TypesLink(<<"s", "t", "r", "i", "n", "g">>)
      [] type \in {"TYPE_DOUBLE", "TYPE_FLOAT"} -> TypesLink(<<"f", "l", "o", "a", "t">>)
      [] type \in {"TYPE_FIXED32", "TYPE_FIXED64", "TYPE_INT32", "TYPE_INT64",
                   "TYPE_SFIXED32", "TYPE_SFIXED64", "TYPE_SINT32", "TYPE_SINT64",
                   "TYPE_UINT32", "TYPE_UINT64"} -> TypesLink(<<"i", "n", "t">>)
      [] OTHER -> <<"<unknown>">>

typeUrl(type) ==
    <<"<a href=\"/docs/dsl-types.php#">> \o type \o <<"\">">> \o type \o <<LinkClose>>

\* BaseFieldType with the override only for a name that begins with date
BaseFieldTypeDatePrefix(fd) ==
    IF fd.type \in {"TYPE_MESSAGE", "TYPE_GROUP", "TYPE_ENUM"}
    THEN typeUrl(fd.type_name)
    ELSE IF StartsWith(fd.name, <<"d", "a", "t", "e">>)
         THEN TypesLink(<<"t", "i", "m", "e">>)
         ELSE scalarTypeName(fd.type)

\* The type of a field before its label is applied
BaseFieldType(fd) ==
    IF fd.type \in {"TYPE_MESSAGE", "TYPE_GROUP", "TYPE_ENUM"}
    THEN typeUrl(fd.type_name)
    ELSE IF IndexOf(fd.name, <<"d", "a", "t", "e">>) # -1
         THEN TypesLink(<<"t", "i", "m", "e">>)
         ELSE scalarTypeName(fd.type)

\* The label of the field applied to its type
LabelledType(label, fieldType) ==
    IF label = "LABEL_OPTIONAL" THEN fieldType \o <<"?">>
    ELSE IF label = "LABEL_REPEATED"
         THEN TypesLink(<<"a", "r", "r", "a", "y">>) \o <<" ", "o", "f", " ">> \o fieldType
         ELSE fieldType

(***************************************************************************)
(* The walk over the descriptors of one file.                              *)
(***************************************************************************)
\* nameLessThan comparing the field names only
nameLessThanFieldOnly(v1, v2) ==
    StrLess(HashString(v1, "field_name"), HashString(v2, "field_name"))

\* nameLessThan: field_name is compared first, then value_name
nameLessThan(v1, v2) ==
    IF StrLess(HashString(v1, "field_name"), HashString(v2, "field_name"))
    THEN TRUE
    ELSE StrLess(HashString(v1, "value_name"), HashString(v2, "value_name"))

\* std::sort(begin, end, &nameLessThan), as an insertion sort
RECURSIVE InsertSorted(_, _)
InsertSorted(v, list) ==
    IF list = <<>> THEN <<v>>
    ELSE IF nameLessThan(v, Head(list)) THEN <<v>> \o list
    ELSE <<Head(list)>> \o InsertSorted(v, Tail(list))

RECURSIVE SortByName(_)
SortByName(list) ==
    IF list = <<>> THEN <<>>
    ELSE With(SortByName(Tail(list)), LAMBDA sorted : InsertSorted(Head(list), sorted))

\* addField: the list with the field appended, unless the field is excluded
addField(fd, fields, ignoreDirectives) ==
    LET d == DescriptionOf(fd, ignoreDirectives)
    IN  IF d.excluded THEN fields
        ELSE Append(fields,
                [field_name        |-> fd.name,
                 field_description |-> d.description,
                 field_type        |-> LabelledType(fd.label, BaseFieldType(fd))])

RECURSIVE AddFields(_, _, _)
AddFields(fds, fields, ignoreDirectives) ==
    IF fds = <<>> THEN fields
    ELSE AddFields(Tail(fds), addField(Head(fds), fields, ignoreDirectives),
                   ignoreDirectives)

\* The loop of addEnum over the values of the enum
RECURSIVE AddValues(_, _, _)
AddValues(vds, values, ignoreDirectives) ==
    IF vds = <<>> THEN values
    ELSE LET d == DescriptionOf(Head(vds), ignoreDirectives)
             next == IF d.excluded THEN values
                     ELSE Append(values,
                            [value_name        |-> Head(vds).name,
                             value_number      |-> Head(vds).number,
                             value_description |-> d.description])
         IN  AddValues(Tail(vds), next, ignoreDirectives)

\* addEnum: the list with the enum appended, unless the enum is excluded
addEnum(ed, enums, ignoreDirectives) ==
    LET d == DescriptionOf(ed, ignoreDirectives)
    IN  IF d.excluded THEN enums
        ELSE Append(enums,
                [enum_name        |-> ed.name,
                 enum_description |-> d.description,
                 enum_values      |-> SortByName(AddValues(ed.values, <<>>,
                                                           ignoreDirectives))])

RECURSIVE AddEnums(_, _, _)
AddEnums(eds, enums, ignoreDirectives) ==
    IF eds = <<>> THEN enums
    ELSE AddEnums(Tail(eds), addEnum(Head(eds), enums, ignoreDirectives),
                  ignoreDirectives)

\* The message entry that addMessages appends for a message that is kept
MessageEntry(md, description, ignoreDirectives) ==
    With(SortByName(AddFields(md.fields, <<>>, ignoreDirectives)),
         LAMBDA fields : [message_name        |-> md.name,
                          message_description |-> description,
                          message_has_fields  |-> fields # <<>>,
                          message_fields      |-> fields])

RECURSIVE addMessages(_, _, _)
RECURSIVE AddAllMessages(_, _, _)

\* addMessages without its early return: the excluded message is left out, its
\* nested messages and enums are still walked
addMessagesWalksExcluded(md, acc, ignoreDirectives) ==
    With(DescriptionOf(md, ignoreDirectives),
         LAMBDA d :
            With(AddAllMessages(md.nested,
                    IF d.excluded THEN acc
                    ELSE [acc EXCEPT !.messages =
                            Append(@, MessageEntry(md, d.description, ignoreDirectives))],
                    ignoreDirectives),
                 LAMBDA nested :
                    [nested EXCEPT !.enums = AddEnums(md.enums, @, ignoreDirectives)]))

\* addMessages appending the message after its nested messages instead of
\* before them
addMessagesAppendsLast(md, acc, ignoreDirectives) ==
    With(DescriptionOf(md, ignoreDirectives),
         LAMBDA d :
            IF d.excluded THEN acc
            ELSE With(AddAllMessages(md.nested, acc, ignoreDirectives),
                      LAMBDA nested :
                        [nested EXCEPT
                            !.messages =
                                Append(@, MessageEntry(md, d.description, ignoreDirectives)),
                            !.enums = AddEnums(md.enums, @, ignoreDirectives)]))

\* addMessages: acc is [messages, enums]; an excluded message returns at once
addMessages(md, acc, ignoreDirectives) ==
    With(DescriptionOf(md, ignoreDirectives),
         LAMBDA d :
            IF d.excluded THEN acc
            ELSE With(AddAllMessages(md.nested,
                        [acc EXCEPT !.messages =
                            Append(@, MessageEntry(md, d.description, ignoreDirectives))],
                        ignoreDirectives),
                      LAMBDA nested :
                        [nested EXCEPT !.enums = AddEnums(md.enums, @, ignoreDirectives)]))

AddAllMessages(mds, acc, ignoreDirectives) ==
    IF mds = <<>> THEN acc
    ELSE AddAllMessages(Tail(mds), addMessages(Head(mds), acc, ignoreDirectives),
                        ignoreDirectives)

\* QFileInfo(name).fileName(): the part after the last '/'
FileName(name) ==
    LET slashes == {i \in 1..Len(name) : name[i] = "/"}
    IN  IF slashes = {} THEN name
        ELSE Mid(name, CHOOSE i \in slashes : \A j \in slashes : i >= j)

\* The file entry that addFile appends for a file that is kept
FileEntry(fd, description, ignoreDirectives) ==
    With(AddAllMessages(fd.messages, [messages |-> <<>>, enums |-> <<>>],
                        ignoreDirectives),
         LAMBDA walked :
            [file_name        |-> FileName(fd.name),
             file_description |-> description,
             file_package     |-> fd.package,
             file_messages    |-> walked.messages,
             file_enums       |-> AddEnums(fd.enums, walked.enums, ignoreDirectives)])

\* addFile putting the entry in front of the list
addFilePrepends(fd, list, ignoreDirectives) ==
    With(FileDescriptionOf(fd, ignoreDirectives),
         LAMBDA d :
            [files |-> IF d.excluded \/ d.hang THEN list
                       ELSE <<FileEntry(fd, d.description, ignoreDirectives)>> \o list,
             error |-> d.error,
             hang  |-> d.hang])

\* addFile: [files, error, hang]
addFile(fd, list, ignoreDirectives) ==
    With(FileDescriptionOf(fd, ignoreDirectives),
         LAMBDA d :
            [files |-> IF d.excluded \/ d.hang THEN list
                       ELSE Append(list, FileEntry(fd, d.description, ignoreDirectives)),
             error |-> d.error,
             hang  |-> d.hang])

(***************************************************************************)
(* The plugin parameter and the templates.                                 *)
(***************************************************************************)
Json == <<"j", "s", "o", "n">>
NoExcludeToken == <<"n", "o", "-", "e", "x", "c", "l", "u", "d", "e">>

\* The templates of the environment: the built-in format html, a template
\* file, an empty template file and a template file the engine rejects; no
\* other name can be opened.  A template is kept as the sequence of its tags.
BuiltInFormats == {<<"h", "t", "m", "l">>}
TemplateFiles ==
    [name \in {<<"h", "t", "m", "l">>, <<"t", ".", "m", "u", "s", "t", "a", "c", "h", "e">>, <<"e", ".", "m", "u", "s", "t", "a", "c", "h", "e">>, <<"b", ".", "m", "u", "s", "t", "a", "c", "h", "e">>} |->
        CASE name = <<"h", "t", "m", "l">> -> <<"{{#files}}", "{{#p}}", "{{file_description}}", "{{/p}}", "{{/files}}">>
          [] name = <<"t", ".", "m", "u", "s", "t", "a", "c", "h", "e">> -> <<"{{#files}}", "{{file_name}}", "{{/files}}">>
          [] name = <<"e", ".", "m", "u", "s", "t", "a", "c", "h", "e">> -> <<>>
          [] OTHER -> <<"{{#files}}">>]

\* readTemplate: [text, error]
readTemplate(name) ==
    IF name \in DOMAIN TemplateFiles
    THEN [text |-> TemplateFiles[name], error |-> ""]
    ELSE [text |-> <<>>, error |-> "cannot open template"]

\* parseParameter: the context is assigned only when the tokens are accepted;
\* the error of readTemplate is left in *error and true is returned
parseParameter(param, ctx) ==
    LET tokens == SplitAt(param, ",", <<>>)
        usage == [ok |-> FALSE, error |-> "usage", ctx |-> ctx]
    IN  IF Len(tokens) # 2 /\ Len(tokens) # 3 THEN usage
        ELSE IF Len(tokens) = 3 /\ tokens[3] # NoExcludeToken THEN usage
        ELSE LET read == IF tokens[1] # Json THEN readTemplate(tokens[1])
                         ELSE [text |-> ctx.template_, error |-> ""]
             IN  [ok    |-> TRUE,
                  error |-> read.error,
                  ctx   |-> [template_      |-> read.text,
                             outputFileName |-> tokens[2],
                             noExclude      |-> Len(tokens) = 3]]

(***************************************************************************)
(* Rendering.                                                              *)
(***************************************************************************)
\* The template engine, which is outside the program: it rejects a template
\* with a section that is never closed, and otherwise renders the tree
EngineError(template) ==
    \E i \in 1..Len(template) :
        /\ template[i] = "{{#files}}"
        /\ ~\E j \in (i + 1)..Len(template) : template[j] = "{{/files}}"

\* render opening and printing before it looks at the error of the engine
renderWritesFirst(ctx, tree, jsonNull) ==
    IF ctx.template_ = <<>>
    THEN IF jsonNull
         THEN [ok |-> FALSE, error |-> "Failed to create JSON document", written |-> <<>>]
         ELSE [ok |-> TRUE, error |-> "",
               written |-> <<[name |-> ctx.outputFileName, by |-> "json",
                              template |-> <<>>, tree |-> tree]>>]
    ELSE [ok |-> ~EngineError(ctx.template_),
          error |-> IF EngineError(ctx.template_) THEN "template error" ELSE "",
          written |-> <<[name |-> ctx.outputFileName, by |-> "template",
                         template |-> ctx.template_, tree |-> tree]>>]

\* render: [ok, error, written], written being what is opened and printed
render(ctx, tree, jsonNull) ==
    IF ctx.template_ = <<>>
    THEN IF jsonNull
         THEN [ok |-> FALSE, error |-> "Failed to create JSON document", written |-> <<>>]
         ELSE [ok |-> TRUE, error |-> "",
               written |-> <<[name |-> ctx.outputFileName, by |-> "json",
                              template |-> <<>>, tree |-> tree]>>]
    ELSE IF EngineError(ctx.template_)
         THEN [ok |-> FALSE, error |-> "template error", written |-> <<>>]
         ELSE [ok |-> TRUE, error |-> "",
               written |-> <<[name |-> ctx.outputFileName, by |-> "template",
                              template |-> ctx.template_, tree |-> tree]>>]

(***************************************************************************)
(* The paragraph filter.                                                   *)
(***************************************************************************)
\* Where one of the alternatives (\n|\r|\r\n) can end when it starts at i, in
\* the order the alternatives are tried
GroupEnds(t, i) ==
    (IF i <= Len(t) /\ t[i] = LF THEN <<i + 1>> ELSE <<>>)
    \o (IF i <= Len(t) /\ t[i] = CR THEN <<i + 1>> ELSE <<>>)
    \o (IF i + 1 <= Len(t) /\ t[i] = CR /\ t[i + 1] = LF THEN <<i + 2>> ELSE <<>>)

\* The longest stretch \s* can take from position i on
RECURSIVE SpaceRun(_, _)
SpaceRun(t, i) == IF i <= Len(t) /\ IsSpace(t[i]) THEN 1 + SpaceRun(t, i + 1) ELSE 0

\* \s* is greedy: it gives back one character at a time until the second
\* group matches
RECURSIVE SecondGroup(_, _, _)
SecondGroup(t, from, k) ==
    IF k < 0 THEN 0
    ELSE IF GroupEnds(t, from + k) # <<>> THEN Head(GroupEnds(t, from + k))
    ELSE SecondGroup(t, from, k - 1)

RECURSIVE FirstGroup(_, _)
FirstGroup(t, ends) ==
    IF ends = <<>> THEN 0
    ELSE LET e == SecondGroup(t, Head(ends), SpaceRun(t, Head(ends)))
         IN  IF e # 0 THEN e ELSE FirstGroup(t, Tail(ends))

\* The position after the match of (\n|\r|\r\n)\s*(\n|\r|\r\n) that starts at
\* i, or 0 when none starts there
MatchEnd(t, i) == FirstGroup(t, GroupEnds(t, i))

\* QString::split(re): the pieces between the successive matches, the empty
\* ones kept
RECURSIVE SplitRe(_, _, _)
SplitRe(t, from, start) ==
    IF from > Len(t) THEN <<SubSeq(t, start, Len(t))>>
    ELSE IF MatchEnd(t, from) # 0
         THEN <<SubSeq(t, start, from - 1)>>
              \o SplitRe(t, MatchEnd(t, from), MatchEnd(t, from))
         ELSE SplitRe(t, from + 1, start)

\* QStringList::join
RECURSIVE Join(_, _)
Join(list, sep) ==
    IF list = <<>> THEN <<>>
    ELSE IF Len(list) = 1 THEN Head(list)
    ELSE Head(list) \o sep \o Join(Tail(list), sep)

\* pFilter, applied to what renderer->render(text, context) returned
pFilter(text) == <<"<p>">> \o Join(SplitRe(text, 1, 1), <<"</p>", "<p>">>) \o <<"</p>">>

(***************************************************************************)
(* The inputs of a run: descriptors as the host gives them.                *)
(***************************************************************************)
\* Raw comments as the source location of an item holds them
DocComment == <<"*", " ", "D", "o", "c", " ">>
ExcludeComment == <<"*", " ", "@", "e", "x", "c", "l", "u", "d", "e", " ">>
ExcludeTextComment == <<"*", " ", "@", "e", "x", "c", "l", "u", "d", "e", " ", "D", "e", "p", "r", "e", "c", "a", "t", "e", "d", " ", "f", "i", "e", "l", "d", " ">>
PlainComment == <<" ", "@", "e", "x", "c", "l", "u", "d", "e">>
LineDocExclude == <<"/", " ", "@", "e", "x", "c", "l", "u", "d", "e", LF>>

Item(name, leading) == [name |-> name, leading |-> leading, trailing |-> <<>>]

Field(name, leading, type, label) ==
    [name |-> name, leading |-> leading, trailing |-> <<>>, type |-> type,
     label |-> label, type_name |-> <<"O", "t", "h", "e", "r">>]

Value(name, number, leading) ==
    [name |-> name, number |-> number, leading |-> leading, trailing |-> <<>>]

Enum(name, leading, values) ==
    [name |-> name, leading |-> leading, trailing |-> <<>>, values |-> values]

Message(name, leading, fields, nested, enums) ==
    [name |-> name, leading |-> leading, trailing |-> <<>>, fields |-> fields,
     nested |-> nested, enums |-> enums]

File(name, openable, text, messages, enums) ==
    [name |-> name, package |-> <<"p", "k", "g">>, openable |-> openable, text |-> text,
     messages |-> messages, enums |-> enums]

\* The sequences of at most n distinct elements of S
DistinctSeqs(S, n) ==
    UNION {{q \in [1..k -> S] : \A i, j \in 1..k : i # j => q[i] # q[j]} : k \in 0..n}

\* The sequences of at most n elements of S
SeqsUpTo(S, n) == UNION {[1..k -> S] : k \in 0..n}

\* A few whole files, for the runs over several files
FileA ==
    File(<<"d", "/", "a", ".", "p", "r", "o", "t", "o">>, TRUE, <<<<"/", "*", "*", " ", "A", " ", "*", "/">>, <<"m", "e", "s", "s", "a", "g", "e", " ", "M", " ", "{", "}">>>>,
         <<Message(<<"M">>, DocComment,
                   <<Field(<<"x">>, DocComment, "TYPE_INT32", "LABEL_OPTIONAL")>>,
                   <<>>, <<>>)>>,
         <<>>)
FileB ==
    File(<<"b", ".", "p", "r", "o", "t", "o">>, TRUE, <<<<"/", "/", "/", " ", "@", "e", "x", "c", "l", "u", "d", "e">>, <<"s", "y", "n", "t", "a", "x">>>>,
         <<Message(<<"B">>, DocComment, <<>>, <<>>, <<>>)>>, <<>>)
FileC ==
    File(<<"c", ".", "p", "r", "o", "t", "o">>, FALSE, <<>>, <<Message(<<"C">>, DocComment, <<>>, <<>>, <<>>)>>, <<>>)
FileE ==
    File(<<"e", ".", "p", "r", "o", "t", "o">>, TRUE, <<>>, <<>>,
         <<Enum(<<"E">>, DocComment, <<Value(<<"V">>, 0, DocComment)>>)>>)

CatalogueFiles == {FileA, FileB, FileC, FileE}

Parameters ==
    {<<"j", "s", "o", "n", ",", "o">>,
     <<"j", "s", "o", "n", ",", "o", ",", "n", "o", "-", "e", "x", "c", "l", "u", "d", "e">>,
     <<"h", "t", "m", "l", ",", "o">>,
     <<"t", ".", "m", "u", "s", "t", "a", "c", "h", "e", ",", "o">>,
     <<"e", ".", "m", "u", "s", "t", "a", "c", "h", "e", ",", "o">>,
     <<"b", ".", "m", "u", "s", "t", "a", "c", "h", "e", ",", "o">>,
     <<"m", ".", "m", "u", "s", "t", "a", "c", "h", "e", ",", "o">>,
     <<"j", "s", "o", "n">>,
     <<"j", "s", "o", "n", ",", "o", ",", "x">>,
     <<"h", "t", "m", "l", ",", "o", ",", "n", "o", "-", "e", "x", "c", "l", "u", "d", "e", ",", "z">>,
     <<>>}

\* The parameters of the runs over one generated file
PlainParameters ==
    {<<"j", "s", "o", "n", ",", "o">>,
     <<"j", "s", "o", "n", ",", "o", ",", "n", "o", "-", "e", "x", "c", "l", "u", "d", "e">>}

\* Files whose messages, fields and enum values are generated: message M1
\* holds the fields and the messages N1 and, inside it, NN; enum E1 holds the
\* values
FieldNames == {<<"z", "e", "t", "a">>, <<"a", "l", "p", "h", "a">>, <<"m", "u">>, <<"a", "l">>, <<"Z", "e", "d">>}
ValueNames == {<<"R", "E", "D">>, <<"G", "R", "E", "E", "N">>, <<"b", "l", "u", "e">>}
ItemComments == {DocComment, ExcludeComment}
MessageComments == {DocComment, ExcludeComment, PlainComment, LineDocExclude}

\* Declarations of at most n items with distinct names, each with a comment
Declarations(names, n) ==
    {q \in SeqsUpTo(names \X ItemComments, n) :
        \A i, j \in 1..Len(q) : i # j => q[i][1] # q[j][1]}

RECURSIVE FieldsOf(_)
FieldsOf(decls) ==
    IF decls = <<>> THEN <<>>
    ELSE <<Field(Head(decls)[1], Head(decls)[2], "TYPE_INT32", "LABEL_OPTIONAL")>>
         \o FieldsOf(Tail(decls))

RECURSIVE ValuesOf(_, _)
ValuesOf(decls, number) ==
    IF decls = <<>> THEN <<>>
    ELSE <<Value(Head(decls)[1], number, Head(decls)[2])>>
         \o ValuesOf(Tail(decls), number + 1)

DefaultFields == <<<<<<"z", "e", "t", "a">>, DocComment>>, <<<<"a", "l", "p", "h", "a">>, DocComment>>, <<<<"m", "u">>, DocComment>>>>
DefaultValues == <<<<<<"R", "E", "D">>, DocComment>>, <<<<"G", "R", "E", "E", "N">>, DocComment>>>>

WalkFile(c1, c2, c3, c4, fieldDecls, valueDecls) ==
    File(<<"w", ".", "p", "r", "o", "t", "o">>, TRUE, <<>>,
         <<Message(<<"M", "1">>, c1, FieldsOf(fieldDecls),
              <<Message(<<"N", "1">>, c2,
                   <<Field(<<"g">>, DocComment, "TYPE_BOOL", "LABEL_REQUIRED")>>,
                   <<Message(<<"N", "N">>, c3,
                        <<Field(<<"h">>, DocComment, "TYPE_STRING", "LABEL_REPEATED")>>,
                        <<>>,
                        <<Enum(<<"E", "3">>, DocComment, ValuesOf(DefaultValues, 0))>>)>>,
                   <<Enum(<<"E", "2">>, DocComment, ValuesOf(DefaultValues, 0))>>)>>,
              <<Enum(<<"E", "1">>, c4, ValuesOf(valueDecls, 0))>>),
           Message(<<"M", "2">>, DocComment,
              <<Field(<<"k">>, DocComment, "TYPE_INT64", "LABEL_OPTIONAL")>>, <<>>, <<>>)>>,
         <<Enum(<<"E", "0">>, DocComment, ValuesOf(DefaultValues, 0))>>)

WalkFiles ==
    {WalkFile(c1, c2, c3, c4, DefaultFields, DefaultValues) :
        c1 \in MessageComments, c2 \in MessageComments, c3 \in MessageComments,
        c4 \in ItemComments}
    \cup {WalkFile(DocComment, DocComment, DocComment, DocComment, f, DefaultValues) :
            f \in Declarations(FieldNames, MaxFields)}
    \cup {WalkFile(DocComment, DocComment, DocComment, DocComment, DefaultFields, v) :
            v \in Declarations(ValueNames, MaxFields)}

\* Files whose messages nest two deep and have later siblings at every level,
\* with enums at every level and two top-level enums declared out of
\* alphabetical order: P holds Q (which holds R) and S, T holds U
NestFile(cp, cq, cr, cs, ct, cu, ce, cz) ==
    File(<<"n", ".", "p", "r", "o", "t", "o">>, TRUE, <<>>,
         <<Message(<<"P">>, cp, <<>>,
              <<Message(<<"Q">>, cq, <<>>,
                   <<Message(<<"R">>, cr, <<>>, <<>>,
                        <<Enum(<<"E", "R">>, DocComment, <<>>)>>)>>,
                   <<Enum(<<"E", "Q">>, ce, <<>>)>>),
                Message(<<"S">>, cs, <<>>, <<>>,
                   <<Enum(<<"E", "S">>, DocComment, <<>>)>>)>>,
              <<Enum(<<"E", "P">>, DocComment, <<>>)>>),
           Message(<<"T">>, ct, <<>>,
              <<Message(<<"U">>, cu, <<>>, <<>>,
                   <<Enum(<<"E", "U">>, DocComment, <<>>)>>)>>,
              <<Enum(<<"E", "T">>, ce, <<>>)>>)>>,
         <<Enum(<<"Z", "9">>, cz, <<>>),
           Enum(<<"A", "0">>, DocComment, <<>>),
           Enum(<<"K", "5">>, ce, <<>>)>>)

NestFiles ==
    {NestFile(cp, cq, cr, cs, ct, cu, ce, cz) :
        cp \in ItemComments, cq \in ItemComments, cr \in ItemComments,
        cs \in ItemComments, ct \in ItemComments, cu \in ItemComments,
        ce \in ItemComments, cz \in ItemComments}

\* Files with one message of one field, of every type and label
DatedNames == {<<"c", "r", "e", "a", "t", "e", "d", "_", "d", "a", "t", "e">>, <<"u", "p", "d", "a", "t", "e">>, <<"d", "a", "t", "e">>, <<"D", "a", "t", "e">>, <<"n", "a", "m", "e">>, <<"d", "a", "t">>}
FieldComments == {DocComment, ExcludeTextComment, <<>>}

FieldFiles ==
    {File(<<"f", ".", "p", "r", "o", "t", "o">>, TRUE, <<>>,
          <<Message(<<"M">>, DocComment, <<Field(n, c, t, l)>>, <<>>, <<>>)>>, <<>>) :
        n \in DatedNames, c \in FieldComments, t \in FieldTypes, l \in Labels}

\* Files of at most MaxLines lines and no declaration
SourceLines ==
    {<<"/", "/", "/", " ", "A">>, <<"/", "/", "/", "B">>, <<" ", " ", "/", "/", "/", " ", "@", "e", "x", "c", "l", "u", "d", "e", " ", "x">>, <<>>, <<"s", "y", "n", "t", "a", "x">>,
     <<"/", "*", "*", " ", "C", " ", "*", "/">>, <<"/", "*", "*">>, <<"*", " ", "D">>, <<"E", " ", "*", "/">>}

TextFiles ==
    {File(<<"t", ".", "p", "r", "o", "t", "o">>, TRUE, text, <<>>, <<>>) : text \in SeqsUpTo(SourceLines, MaxLines)}

(***************************************************************************)
(* The run: the host calls Generate once per parsed file, in order, and    *)
(* stops at the first callback that returns false.                         *)
(***************************************************************************)
Context == [template_ |-> template_, outputFileName |-> outputFileName,
            noExclude |-> noExclude]

IsFirst(fd) == fd = parsedFiles[1]

\* IsLast comparing with the front of the list
IsLastFront(fd) == fd = parsedFiles[1]

IsLast(fd) == fd = parsedFiles[Len(parsedFiles)]

\* The first steps of Generate: the parameter is parsed in the callback of the
\* first file only
ParseStep(fd) ==
    IF IsFirst(fd) THEN parseParameter(parameter, Context)
    ELSE [ok |-> TRUE, error |-> "", ctx |-> Context]

\* The last steps of Generate: the output is rendered in the callback of the
\* last file only
RenderStep(fd, ctx, tree) ==
    IF IsLast(fd) THEN render(ctx, tree, jsonFails)
    ELSE [ok |-> TRUE, error |-> "", written |-> <<>>]

\* What a callback that got past the parameter leaves: the error of addFile
\* replaces the one readTemplate left, and what render opened and printed stays
\* written whatever render returns
GenerateOutcome(i, parsed, added, drawn) ==
    LET failure == IF added.error # "" THEN added.error ELSE parsed.error
    IN  IF added.hang
        THEN [phase |-> "hung", error |-> failure, written |-> <<>>]
        ELSE IF failure # ""
        THEN [phase |-> "failed", error |-> failure, written |-> <<>>]
        ELSE IF ~drawn.ok
        THEN [phase |-> "failed", error |-> drawn.error, written |-> drawn.written]
        ELSE [phase |-> IF i = Len(parsedFiles) THEN "done" ELSE "running",
              error |-> "", written |-> drawn.written]

\* DocGenerator::Generate for the next file, as a whole:
\* [phase, error, ctx, files, written]
GenerateResult(i) ==
    With(ParseStep(parsedFiles[i]),
         LAMBDA parsed :
            IF ~parsed.ok
            THEN [phase |-> "failed", error |-> parsed.error, ctx |-> Context,
                  files |-> files, written |-> <<>>]
            ELSE With(addFile(parsedFiles[i], files, parsed.ctx.noExclude),
                      LAMBDA added :
                        With(GenerateOutcome(i, parsed, added,
                                RenderStep(parsedFiles[i], parsed.ctx, added.files)),
                             LAMBDA out :
                                [phase |-> out.phase, error |-> out.error,
                                 ctx |-> parsed.ctx, files |-> added.files,
                                 written |-> out.written])))

Generate ==
    /\ phase = "running"
    /\ idx < Len(parsedFiles)
    /\ \E r \in {GenerateResult(idx + 1)} :
           /\ idx' = idx + 1
           /\ phase' = r.phase
           /\ error' = r.error
           /\ template_' = r.ctx.template_
           /\ outputFileName' = r.ctx.outputFileName
           /\ noExclude' = r.ctx.noExclude
           /\ files' = r.files
           /\ sink' = sink \o [k \in 1..Len(r.written) |->
                                  [name |-> r.written[k].name, by |-> r.written[k].by,
                                   template |-> r.written[k].template,
                                   tree |-> r.written[k].tree, during |-> idx + 1]]
    /\ UNCHANGED <<parameter, parsedFiles, jsonFails, rendered, pout, scan>>

\* The state of the process when the host makes its first call
InitContext ==
    /\ idx = 0
    /\ phase = "running"
    /\ error = ""
    /\ template_ = <<>>
    /\ outputFileName = <<>>
    /\ noExclude = FALSE
    /\ files = <<>>
    /\ sink = <<>>
    /\ rendered = <<>>
    /\ pout = <<>>
    /\ scan = ScanStart

Init ==
    /\ InitContext
    /\ \/ /\ parsedFiles \in (DistinctSeqs(CatalogueFiles, MaxFiles) \ {<<>>})
          /\ parameter \in Parameters
          /\ jsonFails \in BOOLEAN
       \/ /\ parsedFiles \in {<<f>> : f \in WalkFiles \cup NestFiles \cup FieldFiles
                                            \cup TextFiles}
          /\ parameter \in PlainParameters
          /\ jsonFails = FALSE

Next == Generate

Spec == Init /\ [][Next]_vars

(***************************************************************************)
(* The paragraph filter on its own: every text of at most MaxText          *)
(* characters among a letter, a space and the two line terminators.        *)
(***************************************************************************)
TextChars == {"a", " ", LF, CR}

ApplyPFilter ==
    /\ pout = <<>>
    /\ pout' = pFilter(rendered)
    /\ UNCHANGED <<parameter, parsedFiles, jsonFails, idx, phase, error, template_,
                   outputFileName, noExclude, files, sink, rendered, scan>>

InitP ==
    /\ rendered \in SeqsUpTo(TextChars, MaxText)
    /\ pout = <<>>
    /\ parameter = <<>>
    /\ parsedFiles = <<>>
    /\ jsonFails = FALSE
    /\ idx = 0
    /\ phase = "done"
    /\ error = ""
    /\ template_ = <<>>
    /\ outputFileName = <<>>
    /\ noExclude = FALSE
    /\ files = <<>>
    /\ sink = <<>>
    /\ scan = ScanStart

NextP == ApplyPFilter

SpecP == InitP /\ [][NextP]_vars

(***************************************************************************)
(* The header scan on its own, one loop iteration at a time, over every    *)
(* source text of at most MaxLines lines.  readLine at the end of the      *)
(* stream gives the null string as often as it is called; the model stops  *)
(* following a scan after MaxNullReads such calls.                         *)
(***************************************************************************)
SourceText == parsedFiles[1].text

\* The iteration about to run calls readLine with the stream at its end
ReadsAtEnd == ScanHangs(SourceText, scan)

ScanFrame ==
    UNCHANGED <<parameter, parsedFiles, jsonFails, idx, phase, error, template_,
                outputFileName, noExclude, files, sink, rendered, pout>>

\* while (!stream.atEnd()) { line = readLine().trimmed(); ... break; }
ScanOuterStep ==
    /\ scan.pc = "outer"
    /\ scan' = ScanOuter(SourceText, scan)
    /\ ScanFrame

\* while (!stream.atEnd() && line.startsWith("///")) { ... }
ScanLinesStep ==
    /\ scan.pc = "lines"
    /\ scan' = ScanLines(SourceText, scan)
    /\ ScanFrame

\* while ((end = line.indexOf("*/")) == -1) { ... } and the statements after it
ScanBlockStep ==
    /\ scan.pc = "block"
    /\ scan.nulls < MaxNullReads
    /\ scan' = [ScanBlock(SourceText, scan) EXCEPT
                    !.nulls = IF ReadsAtEnd THEN @ + 1 ELSE @]
    /\ ScanFrame

\* description = description.trimmed(), after the loop
ScanFinishStep ==
    /\ scan.pc = "finish"
    /\ scan' = ScanFinish(scan)
    /\ ScanFrame

InitScan ==
    /\ InitContext
    /\ parsedFiles \in {<<f>> : f \in TextFiles}
    /\ parameter = <<>>
    /\ jsonFails = FALSE

NextScan == ScanOuterStep \/ ScanLinesStep \/ ScanBlockStep \/ ScanFinishStep

SpecScan == InitScan /\ [][NextScan]_vars

(***************************************************************************)
(* Properties.                                                             *)
(***************************************************************************)
\* The run has had no error and no callback is stuck
Healthy == phase \in {"running", "done"}

\* The item carries the exclusion directive
HasDirective(d) == StartsWith(NormalizedComment(d), AtExclude)

Range(q) == {q[i] : i \in 1..Len(q)}

\* The entries of the tree for the file fd
EntriesOf(fd) == {e \in Range(files) : e.file_name = FileName(fd.name)}

\* The files whose callbacks have been made
Supplied == {parsedFiles[i] : i \in 1..idx}

\* Every message declared in mds or beneath, with whether it or a message
\* around it carries the directive
RECURSIVE MessagesBelow(_, _)
MessagesBelow(mds, hidden) ==
    IF mds = <<>> THEN {}
    ELSE LET h == hidden \/ HasDirective(Head(mds))
         IN  {[msg |-> Head(mds), hidden |-> h]}
             \cup MessagesBelow(Head(mds).nested, h)
             \cup MessagesBelow(Tail(mds), hidden)

MessageNames(e) == {m.message_name : m \in Range(e.file_messages)}
EnumNames(e) == {n.enum_name : n \in Range(e.file_enums)}
FieldNamesIn(e) ==
    UNION {{f.field_name : f \in Range(m.message_fields)} : m \in Range(e.file_messages)}

\* C1: with the directives honoured, a message carrying @exclude and every
\* message, enum and field beneath it are absent from the entry of its file,
\* and the messages and enums outside such a subtree are present.
C1_ExcludedSubtreeAbsent ==
    (Healthy /\ ~noExclude) =>
        \A fd \in Supplied : \A e \in EntriesOf(fd) :
            /\ \A r \in MessagesBelow(fd.messages, FALSE) :
                IF r.hidden
                THEN /\ r.msg.name \notin MessageNames(e)
                     /\ \A n \in Range(r.msg.enums) : n.name \notin EnumNames(e)
                     /\ \A f \in Range(r.msg.fields) : f.name \notin FieldNamesIn(e)
                ELSE /\ r.msg.name \in MessageNames(e)
                     /\ \A n \in Range(r.msg.enums) :
                            n.name \in EnumNames(e) <=> ~HasDirective(n)
            /\ \A n \in Range(fd.enums) : n.name \in EnumNames(e) <=> ~HasDirective(n)

\* Message N1, nested in M1, is excluded: N1, NN, E2 and E3 are absent, M1, M2,
\* E0 and E1 are present
C1_Witness ==
    /\ phase = "done" /\ ~noExclude /\ Len(files) = 1
    /\ \E r \in MessagesBelow(parsedFiles[1].messages, FALSE) :
            r.msg.name = <<"N", "1">> /\ HasDirective(r.msg)
    /\ MessageNames(files[1]) = {<<"M", "1">>, <<"M", "2">>}
    /\ EnumNames(files[1]) = {<<"E", "0">>, <<"E", "1">>}

\* Every enum declared in the file, at any depth
AllEnums(fd) ==
    Range(fd.enums) \cup UNION {Range(r.msg.enums) : r \in MessagesBelow(fd.messages, FALSE)}

\* The names of the declared items that are not excluded
KeptNames(decls) == {d.name : d \in {x \in Range(decls) : ~Excluded(NormalizedComment(x), noExclude)}}

\* The list holds exactly the names of kept, each once, in ascending order
SortedExactly(names, kept) ==
    /\ Range(names) = kept
    /\ Len(names) = Cardinality(kept)
    /\ \A i, j \in 1..Len(names) : i < j => StrLess(names[i], names[j])

\* C2: the field list of every message of the tree, and the value list of
\* every enum, holds exactly the declared items that are not excluded, each
\* once, in ascending order of name by character codes.
C2_SortedSiblings ==
    Healthy =>
        \A fd \in Supplied : \A e \in EntriesOf(fd) :
            /\ \A m \in Range(e.file_messages) :
                \A r \in MessagesBelow(fd.messages, FALSE) :
                    r.msg.name = m.message_name =>
                        SortedExactly([i \in 1..Len(m.message_fields) |->
                                          m.message_fields[i].field_name],
                                      KeptNames(r.msg.fields))
            /\ \A n \in Range(e.file_enums) :
                \A d \in AllEnums(fd) :
                    d.name = n.enum_name =>
                        SortedExactly([i \in 1..Len(n.enum_values) |->
                                          n.enum_values[i].value_name],
                                      KeptNames(d.values))

\* Fields declared in the order alpha, Zed, al come out as Zed, al, alpha
C2_Witness ==
    /\ phase = "done" /\ Len(files) = 1 /\ Len(parsedFiles[1].messages) > 0
    /\ Len(parsedFiles[1].messages[1].fields) = 3
    /\ parsedFiles[1].messages[1].fields[1].name = <<"a", "l", "p", "h", "a">>
    /\ parsedFiles[1].messages[1].fields[2].name = <<"Z", "e", "d">>
    /\ parsedFiles[1].messages[1].fields[3].name = <<"a", "l">>
    /\ [i \in 1..Len(files[1].file_messages[1].message_fields) |->
            files[1].file_messages[1].message_fields[i].field_name]
        = <<<<"Z", "e", "d">>, <<"a", "l">>, <<"a", "l", "p", "h", "a">>>>

\* The text after the directive, with no whitespace around it
TextAfterDirective(d) == Trimmed(Mid(NormalizedComment(d), 8))

\* C3: an item whose comment is @exclude followed by text is absent when the
\* directives are honoured; when they are ignored it is present and its
\* description is the text after the directive with no whitespace around it.
C3_DirectiveWithText ==
    Healthy =>
        \A fd \in Supplied : \A e \in EntriesOf(fd) :
            \A r \in MessagesBelow(fd.messages, FALSE) :
                \A m \in Range(e.file_messages) :
                    r.msg.name = m.message_name =>
                        \A f \in Range(r.msg.fields) :
                            HasDirective(f) =>
                                IF noExclude
                                THEN \E x \in Range(m.message_fields) :
                                        /\ x.field_name = f.name
                                        /\ x.field_description = TextAfterDirective(f)
                                ELSE \A x \in Range(m.message_fields) :
                                        x.field_name # f.name

\* The file for which no callback has failed or hung is kept in the tree unless
\* its header carries the directive and the directives are honoured
FileKept(fd) == ~FileDescriptionOf(fd, noExclude).excluded

\* C4: in a run without error the tree is written once, during the callback of
\* the last file and with that file processed, and nothing is written during an
\* earlier callback.
C4_WrittenOnceAtLast ==
    /\ Len(sink) <= 1
    /\ \A k \in 1..Len(sink) : sink[k].during = Len(parsedFiles)
    /\ phase = "running" => sink = <<>>
    /\ phase = "done" =>
        /\ Len(sink) = 1
        /\ sink[1].tree = files
        /\ FileKept(parsedFiles[Len(parsedFiles)]) =>
            /\ files # <<>>
            /\ files[Len(files)].file_name
                  = FileName(parsedFiles[Len(parsedFiles)].name)

\* Several files, the last of them excluded: one write, during the last callback
C4_Witness ==
    /\ phase = "done" /\ Len(parsedFiles) >= 2
    /\ ~FileKept(parsedFiles[Len(parsedFiles)])
    /\ Len(sink) = 1 /\ sink[1].during = Len(parsedFiles)
    /\ Len(sink[1].tree) = Len(parsedFiles) - 1

\* The errors of a run, from its inputs
Tokens == SplitAt(parameter, ",", <<>>)
MalformedParameter ==
    \/ Len(Tokens) \notin {2, 3}
    \/ Len(Tokens) = 3 /\ Tokens[3] # NoExcludeToken
UnreadableTemplate ==
    ~MalformedParameter /\ Tokens[1] # Json /\ Tokens[1] \notin DOMAIN TemplateFiles
ErrorOccurred ==
    /\ idx >= 1
    /\ \/ MalformedParameter
       \/ UnreadableTemplate
       \/ \E fd \in Supplied : ~fd.openable
       \/ /\ idx = Len(parsedFiles)
          /\ \/ Tokens[1] = Json /\ jsonFails
             \/ Tokens[1] \in DOMAIN TemplateFiles /\ EngineError(TemplateFiles[Tokens[1]])

\* C5: when an error occurs the callback returns failure with an error message
\* that is not empty, and nothing is opened or written in that run.
C5_ErrorMeansNoOutput ==
    /\ (ErrorOccurred /\ phase # "hung") => phase = "failed"
    /\ phase = "failed" => (error # "" /\ sink = <<>>)

\* The template engine fails in the last callback of a run over several files
C5_Witness ==
    /\ phase = "failed" /\ idx = Len(parsedFiles) /\ idx >= 2
    /\ error = "template error" /\ sink = <<>>

FileNamesOf(list) == [i \in 1..Len(list) |-> list[i].file_name]

\* The names of the first k supplied files that are kept, in order
RECURSIVE KeptFileNames(_)
KeptFileNames(k) ==
    IF k = 0 THEN <<>>
    ELSE IF FileKept(parsedFiles[k])
         THEN Append(KeptFileNames(k - 1), FileName(parsedFiles[k].name))
         ELSE KeptFileNames(k - 1)

\* The step of a callback, seen on the tree of a run without failure
TreeAfterCallback ==
    (phase \in {"running", "done"}) => FileNamesOf(files) = KeptFileNames(idx)

\* C6: every callback leaves the file list unchanged or appends one entry at
\* its end, and after successful callbacks the list is the supplied files in
\* order with the excluded ones left out.
C6_AppendOnly ==
    [][/\ \/ files' = files
          \/ /\ Len(files') = Len(files) + 1
             /\ SubSeq(files', 1, Len(files)) = files
       /\ TreeAfterCallback']_vars

\* Three files with the second excluded: the tree holds the first and the third
C6_Witness ==
    /\ phase = "done" /\ idx = 3
    /\ ~FileKept(parsedFiles[2])
    /\ FileNamesOf(files)
        = <<FileName(parsedFiles[1].name), FileName(parsedFiles[3].name)>>

\* C7: the output is the raw tree exactly when the first token of the parameter
\* is json; with any other first token it comes from the template engine.
C7_ModeByFirstToken ==
    \A k \in 1..Len(sink) : (sink[k].by = "json") <=> (Tokens[1] = Json)

\* The first line of the text that is not blank, or 0
FirstNonBlank(text) ==
    LET nonBlank == {i \in 1..Len(text) : Trimmed(text[i]) # <<>>}
    IN  IF nonBlank = {} THEN 0 ELSE CHOOSE i \in nonBlank : \A j \in nonBlank : i <= j

IsLineDoc(line) == StartsWith(Trimmed(line), LineDoc)

\* The last line of the run of /// lines that starts at line i
RunEnd(text, i) ==
    CHOOSE j \in i..Len(text) :
        /\ \A k \in i..j : IsLineDoc(text[k])
        /\ j = Len(text) \/ ~IsLineDoc(text[j + 1])

\* A /// line without its marker and the one space after it
LineContent(line) ==
    IF StartsWith(Trimmed(line), LineDoc \o <<" ">>) THEN Mid(Trimmed(line), 4)
    ELSE Mid(Trimmed(line), 3)

RunDescription(text) ==
    LET first == FirstNonBlank(text)
    IN  Join([k \in 1..(RunEnd(text, first) - first + 1) |->
                LineContent(text[first + k - 1])], <<LF>>)

\* C8: when the first non-blank line of the source begins with ///, the file
\* description is made of every line of the run of /// lines that starts there,
\* joined with line feeds, also when the run ends the file.
C8_WholeRun ==
    Healthy =>
        \A fd \in Supplied : \A e \in EntriesOf(fd) :
            (fd.openable /\ FirstNonBlank(fd.text) # 0
                /\ IsLineDoc(fd.text[FirstNonBlank(fd.text)])) =>
                e.file_description = StripDirective(Trimmed(RunDescription(fd.text)))

\* The line terminators of a stretch, \r\n counting as one
Terminators(t, from, to) ==
    Cardinality({i \in from..to : t[i] \in {LF, CR}})
    - Cardinality({i \in from..(to - 1) : t[i] = CR /\ t[i + 1] = LF})

\* The last line terminator character of a stretch
LastTerminator(t, from, to) ==
    CHOOSE i \in from..to : t[i] \in {LF, CR} /\ \A j \in (i + 1)..to : t[j] \notin {LF, CR}

\* The text split at its blank lines: at every stretch of whitespace that
\* starts with a line terminator and holds a second one
RECURSIVE BlankLineSplit(_, _, _)
BlankLineSplit(t, from, start) ==
    IF from > Len(t) THEN <<SubSeq(t, start, Len(t))>>
    ELSE IF t[from] \notin {LF, CR} THEN BlankLineSplit(t, from + 1, start)
    ELSE LET to == from + SpaceRun(t, from) - 1
         IN  IF Terminators(t, from, to) >= 2
             THEN <<SubSeq(t, start, from - 1)>>
                  \o BlankLineSplit(t, LastTerminator(t, from, to) + 1,
                                    LastTerminator(t, from, to) + 1)
             ELSE BlankLineSplit(t, to + 1, start)

\* C9: the paragraph filter wraps in <p>..</p> the pieces of the text split at
\* its blank lines and nowhere else, joined by </p><p>.
C9_SplitAtBlankLines ==
    pout # <<>> =>
        pout = <<"<p>">> \o Join(BlankLineSplit(rendered, 1, 1), <<"</p>", "<p>">>)
               \o <<"</p>">>

Contains(s, p) == \E i \in 1..Len(s) : i + Len(p) - 1 <= Len(s) /\ SubSeq(s, i, i + Len(p) - 1) = p

Time == TypesLink(<<"t", "i", "m", "e">>)
ArrayOf(type) == TypesLink(<<"a", "r", "r", "a", "y">>) \o <<" ", "o", "f", " ">> \o type

\* C10: a scalar field whose name contains date has the type time in place of
\* the category of its kind, and a scalar field whose name does not has that
\* category; the type is followed by ? for an optional field, preceded by
\* array of for a repeated one, and left as it is for a required one.
C10_DateOverride ==
    Healthy =>
        \A fd \in Supplied : \A e \in EntriesOf(fd) :
            \A r \in MessagesBelow(fd.messages, FALSE) :
                \A m \in Range(e.file_messages) :
                    r.msg.name = m.message_name =>
                        \A f \in Range(r.msg.fields) : \A x \in Range(m.message_fields) :
                            (x.field_name = f.name
                                /\ f.type \notin {"TYPE_MESSAGE", "TYPE_GROUP", "TYPE_ENUM"}) =>
                                LET category == IF Contains(f.name, <<"d", "a", "t", "e">>) THEN Time
                                                ELSE scalarTypeName(f.type)
                                IN  x.field_type =
                                        CASE f.label = "LABEL_OPTIONAL" -> category \o <<"?">>
                                          [] f.label = "LABEL_REPEATED" -> ArrayOf(category)
                                          [] OTHER -> category

\* The repeated 32-bit integer field created_date is an array of time
C10_Witness ==
    /\ phase = "done" /\ Len(files) = 1 /\ Len(parsedFiles[1].messages) = 1
    /\ Len(parsedFiles[1].messages[1].fields) = 1
    /\ parsedFiles[1].messages[1].fields[1].name = <<"c", "r", "e", "a", "t", "e", "d", "_", "d", "a", "t", "e">>
    /\ parsedFiles[1].messages[1].fields[1].type = "TYPE_INT32"
    /\ parsedFiles[1].messages[1].fields[1].label = "LABEL_REPEATED"
    /\ Len(files[1].file_messages[1].message_fields) = 1
    /\ files[1].file_messages[1].message_fields[1].field_type = ArrayOf(Time)

\* The item is kept: it does not carry the directive, or directives are ignored
Kept(d) == ~Excluded(NormalizedComment(d), noExclude)

\* The names of the kept messages in depth-first pre-order: a message, then its
\* nested messages and what is beneath them, then its next sibling; nothing
\* beneath a message that is not kept
RECURSIVE PreOrderNames(_)
PreOrderNames(mds) ==
    IF mds = <<>> THEN <<>>
    ELSE (IF Kept(Head(mds))
          THEN <<Head(mds).name>> \o PreOrderNames(Head(mds).nested)
          ELSE <<>>)
         \o PreOrderNames(Tail(mds))

\* The names of the kept enums of one declaration list, in declaration order
RECURSIVE KeptEnumNames(_)
KeptEnumNames(eds) ==
    IF eds = <<>> THEN <<>>
    ELSE (IF Kept(Head(eds)) THEN <<Head(eds).name>> ELSE <<>>)
         \o KeptEnumNames(Tail(eds))

\* The names of the kept enums declared inside the kept messages, at any depth
RECURSIVE NestedEnumNames(_)
NestedEnumNames(mds) ==
    IF mds = <<>> THEN {}
    ELSE (IF Kept(Head(mds))
          THEN Range(KeptEnumNames(Head(mds).enums)) \cup NestedEnumNames(Head(mds).nested)
          ELSE {})
         \cup NestedEnumNames(Tail(mds))

MessageNameList(e) == [i \in 1..Len(e.file_messages) |-> e.file_messages[i].message_name]
EnumNameList(e) == [i \in 1..Len(e.file_enums) |-> e.file_enums[i].enum_name]

\* C11: the message list of a file entry is the depth-first pre-order sequence
\* of the kept messages of the file, and its enum list is the enums nested in
\* messages followed by the kept top-level enums in declaration order, so that
\* every nested enum comes before every top-level one.
C11_FlattenedPreOrder ==
    Healthy =>
        \A fd \in Supplied : \A e \in EntriesOf(fd) :
            LET top == KeptEnumNames(fd.enums)
                nested == Len(e.file_enums) - Len(top)
            IN  /\ MessageNameList(e) = PreOrderNames(fd.messages)
                /\ nested >= 0
                /\ SubSeq(EnumNameList(e), nested + 1, Len(e.file_enums)) = top
                /\ {EnumNameList(e)[i] : i \in 1..nested} = NestedEnumNames(fd.messages)

\* Nothing is excluded in the file: P is followed by Q, R and S before T and U,
\* the six nested enums precede Z9, A0 and K5, which keep their declared order
C11_Witness ==
    /\ phase = "done" /\ Len(files) = 1
    /\ MessageNameList(files[1]) = <<<<"P">>, <<"Q">>, <<"R">>, <<"S">>, <<"T">>, <<"U">>>>
    /\ EnumNameList(files[1]) =
            <<<<"E", "R">>, <<"E", "Q">>, <<"E", "S">>, <<"E", "P">>, <<"E", "U">>,
              <<"E", "T">>, <<"Z", "9">>, <<"A", "0">>, <<"K", "5">>>>

\* The next iteration leaves the scan in the same loop with the same stream
\* position and the same line held.  The conditions of the loops read nothing
\* else, so from such a point the same iteration repeats without end.
ScanSpins(lines, s) ==
    /\ s.pc \in {"outer", "lines", "block"}
    /\ ScanStep(lines, s).pc = s.pc
    /\ ScanStep(lines, s).pos = s.pos
    /\ ScanStep(lines, s).line = s.line

\* C12: the header scan of every source text, a text with an unclosed block
\* included, returns a description after finitely many iterations: the scan
\* never reaches a point from which its iterations repeat without end.
C12_ScanTerminates == ~ScanSpins(SourceText, scan)

=============================================================================
